---- MODULE Spec2Model ----
(***************************************************************************)
(* ROS::Comm (QMikrotikAPI): the RouterOS API client core.                 *)
(*                                                                         *)
(* The Comm object is modelled by its fields; every slot and method is an  *)
(* operator from a record of those fields to the record after the call,    *)
(* so that a handler that calls other methods is one atomic step.  Bytes   *)
(* and characters are their codes (0..255), words are sequences of bytes.  *)
(* Signals are appended to `events` in emission order together with what   *)
(* isLoged() answers inside the connected slot.  Slots connected to the    *)
(* signals return without calling back into the mutating slots of Comm.    *)
(***************************************************************************)
EXTENDS Integers, Sequences, FiniteSets, TLC

VARIABLES
    sockState,          \* m_sock.state()
    sockOpen,           \* m_sock.isOpen() (QIODevice open mode)
    rx,                 \* bytes buffered in m_sock, not yet read
    net,                \* bytes sent by the router, not yet arrived
    partial,            \* a part of net has arrived, the rest arrives whole
    appCred,            \* what the application's loginRequest slot answers
    m_Username, m_Password,
    incomingWord, incomingSentence, sentenceCompleted,
    m_loginState, incomingWordSize,
    ID,                 \* static int ID of sendSentence
    halted,             \* the process was terminated (abort / uncaught throw)
    events,             \* signals emitted and words sent by the last step
    tx,                 \* bytes accepted by m_sock.write in the last step
    ret,                \* value returned by the last call
    thrown,             \* message thrown by the last step ("" = none)
    lastOp,             \* the operation the last step performed
    nConn,              \* connectToHost calls so far
    nPeer,              \* sentences the router sent so far
    doneReplies,        \* Done sentences the login machine took on this connection
    authFailed,         \* a login reply was rejected since the last Connected
    frame,              \* the bytes the framing specification feeds to readWord
    given               \* the arguments of the last call, where a property needs them

vars == <<sockState, sockOpen, rx, net, partial, appCred, m_Username, m_Password, incomingWord,
          incomingSentence, sentenceCompleted, m_loginState, incomingWordSize,
          ID, halted, events, tx, ret, thrown, lastOp, nConn, nPeer,
          doneReplies, authFailed, frame, given>>

-----------------------------------------------------------------------------
(* Bounds of the model.                                                    *)
MaxConn == 2        \* connection attempts
MaxPeer == 3        \* sentences the router sends
MaxID == 1          \* tags the application lets sendSentence create
MaxCut == 1         \* bytes of a sentence that may arrive ahead of the rest
MaxPayload == 3     \* payload bytes of a word in the framing specification
MaxWords == 2       \* words of a sentence in the assembly specification

(* Program constants.                                                      *)
RetLen == 32        \* characters of the 'ret' challenge
DigestLen == 16     \* bytes of an MD5 digest / of the decoded challenge
Len1 == 128         \* 0x80: first length that needs 2 bytes
Len2 == 16384       \* 0x4000
Len3 == 2097152     \* 0x200000
Len4 == 268435456   \* 0x10000000: first length that cannot be encoded
IntMax == 2147483647 \* the largest value of the static int ID

-----------------------------------------------------------------------------
(* Text: the strings of the source as sequences of Latin-1 codes.          *)
S_login    == <<47,108,111,103,105,110>>                  \* "/login"
S_name     == <<61,110,97,109,101,61>>                    \* "=name="
S_response == <<61,114,101,115,112,111,110,115,101,61,48,48>> \* "=response=00"
S_tag      == <<46,116,97,103,61>>                        \* ".tag="
S_done     == <<33,100,111,110,101>>                      \* "!done"
S_trap     == <<33,116,114,97,112>>                       \* "!trap"
S_ret      == <<114,101,116>>                             \* "ret"
S_message  == <<109,101,115,115,97,103,101>>              \* "message"
S_re       == <<33,114,101>>                              \* "!re"
S_cmd      == <<47,120>>                                  \* "/x"

Min(a, b) == IF a < b THEN a ELSE b

RECURSIVE Concat(_)
Concat(ss) == IF ss = <<>> THEN <<>> ELSE Head(ss) \o Concat(Tail(ss))

RECURSIVE SumSeq(_)
SumSeq(s) == IF s = <<>> THEN 0 ELSE Head(s) + SumSeq(Tail(s))

(* QString("%1").arg(n): the sign and the decimal digits of n.  The digits *)
(* of a negative n are taken from n itself, -n being out of range for the  *)
(* least int.                                                              *)
RECURSIVE NegDigits(_)
NegDigits(n) ==
    IF n > -10 THEN <<48 - n>>
    ELSE NegDigits((n + ((10 - (n % 10)) % 10)) \div 10)
             \o <<48 + ((10 - (n % 10)) % 10)>>

RECURSIVE DecStr(_)
DecStr(n) == IF n < 0 THEN <<45>> \o NegDigits(n)
             ELSE IF n < 10 THEN <<48 + n>>
             ELSE DecStr(n \div 10) \o <<48 + (n % 10)>>

(* A word is the sequence of its characters; the element LongRun stands    *)
(* for a run of 0x10000000 characters, of which only the count is used.    *)
LongRun == -1

(* QString::count.                                                         *)
count(word) == SumSeq([i \in 1..Len(word) |-> IF word[i] = LongRun THEN Len4 ELSE 1])

(* QString::toLatin1: a character outside Latin-1 becomes '?'.             *)
toLatin1(str) == [i \in 1..Len(str) |-> IF str[i] > 255 THEN 63 ELSE str[i]]

(* strlen on a char buffer: the bytes before the first NUL.                *)
RECURSIVE strlen(_)
strlen(bytes) ==
    IF bytes = <<>> \/ Head(bytes) = 0 THEN 0 ELSE 1 + strlen(Tail(bytes))

-----------------------------------------------------------------------------
(* Hash collaborator (QMD5): digest, hex encoding and decoding.            *)
HexDigit(v) == IF v < 10 THEN 48 + v ELSE 87 + v
HexVal(c) == IF c >= 48 /\ c <= 57 THEN c - 48
             ELSE IF c >= 97 /\ c <= 102 THEN c - 87
             ELSE IF c >= 65 /\ c <= 70 THEN c - 55 ELSE 0

ToBinary(hex) ==
    [i \in 1..(Len(hex) \div 2) |-> 16 * HexVal(hex[2*i - 1]) + HexVal(hex[2*i])]

DigestToHexString(digest) ==
    [i \in 1..(2 * Len(digest)) |->
        IF i % 2 = 1 THEN HexDigit(digest[(i + 1) \div 2] \div 16)
                     ELSE HexDigit(digest[i \div 2] % 16)]

(* init/append/finish: a 16-byte digest of everything appended.            *)
MD5(bytes) ==
    [i \in 1..DigestLen |-> (i * SumSeq(bytes) + 7 * Len(bytes) + 31 * i) % 256]

-----------------------------------------------------------------------------
(* Sentence collaborator (QSentence).  An incoming sentence is the list of *)
(* its words; an outgoing one has a command, three word groups and a tag.  *)
IsAttr(w) == Len(w) >= 1 /\ w[1] = 61

RECURSIVE IndexOf(_, _, _)
IndexOf(w, c, from) ==
    IF from > Len(w) THEN 0 ELSE IF w[from] = c THEN from ELSE IndexOf(w, c, from + 1)

AttrName(w) == LET e == IndexOf(w, 61, 2)
               IN IF e = 0 THEN SubSeq(w, 2, Len(w)) ELSE SubSeq(w, 2, e - 1)
AttrValue(w) == LET e == IndexOf(w, 61, 2)
                IN IF e = 0 THEN <<>> ELSE SubSeq(w, e + 1, Len(w))

getResultType(sent) ==
    IF sent = <<>> THEN "None"
    ELSE IF sent[1] = S_done THEN "Done"
    ELSE IF sent[1] = S_trap THEN "Trap"
    ELSE IF sent[1] = S_re THEN "Reply" ELSE "None"

attributes(sent) == SelectSeq(sent, IsAttr)
attributesCount(sent) == Cardinality({AttrName(attributes(sent)[i]) : i \in 1..Len(attributes(sent))})
attribute(sent, name) ==
    LET as == attributes(sent)
        hit == {i \in 1..Len(as) : AttrName(as[i]) = name}
    IN IF hit = {} THEN <<>>
       ELSE AttrValue(as[CHOOSE i \in hit : \A j \in hit : j <= i])

(* QSentence(cmd) and the groups' toWords().                               *)
QSentence(cmd) == [command |-> cmd, attributes |-> <<>>, APIattributes |-> <<>>,
                   queries |-> <<>>, tag |-> <<>>]
attrWords(as)  == [i \in 1..Len(as) |-> <<61>> \o as[i][1] \o <<61>> \o as[i][2]]
apiWords(as)   == [i \in 1..Len(as) |-> <<46>> \o as[i][1] \o <<61>> \o as[i][2]]
queryWords(qs) == [i \in 1..Len(qs) |-> <<63>> \o qs[i]]

-----------------------------------------------------------------------------
(* The Comm object is a record s of its fields.  env holds what a step     *)
(* leaves to the build or to the application: env.crash (the double free   *)
(* in readLength aborts the process), env.caught (an exception that left   *)
(* a slot is caught by the application instead of terminating it),         *)
(* env.pending (unsent bytes are in the socket's write buffer when it is   *)
(* closed), env.cred (the answer of the loginRequest slot).                *)
Hex32 == [i \in 1..RetLen |-> HexDigit((7 * i) % 16)]
Credentials == { [user |-> <<117>>, pass |-> <<112, 119>>],
                 [user |-> <<97>>,  pass |-> <<112, 0, 119>>] }

Dead(s) == s.halted \/ s.thrown # ""

throw(s, msg) == IF Dead(s) THEN s ELSE [s EXCEPT !.thrown = msg]

returning(s, value) == IF Dead(s) THEN s ELSE [s EXCEPT !.ret = value]

isConnected(s) == s.sockState = "Connected"
isLoged(s) == isConnected(s) /\ s.m_loginState = "LogedIn"

Event(s, sig, arg, data, sent) ==
    [sig |-> sig, arg |-> arg, data |-> data, sent |-> sent, loged |-> isLoged(s)]

record(s, sig, arg, data, sent) ==
    IF Dead(s) THEN s
    ELSE [s EXCEPT !.events = Append(@, Event(s, sig, arg, data, sent))]

emit(s, sig, arg) == record(s, sig, arg, <<>>, <<>>)

(* m_sock.write: refused while the device is closed or unconnected.        *)
sockWrite(s, bytes) ==
    IF Dead(s) \/ ~s.sockOpen \/ s.sockState = "Unconnected" THEN s
    ELSE [s EXCEPT !.tx = @ \o bytes]

(* b | mask for the marker masks 0x80, 0xc0 and 0xe0.                      *)
OrMask(b, mask) == (b % (256 - mask)) + mask
Byte(n, k) == (n \div (256 ^ k)) % 256      \* lengthData[k], little endian

(* Mutant: the 1-byte class takes 0x80 as well.                            *)
encodedLengthData_inclusive(wordLength) ==
    IF wordLength <= Len1 THEN <<Byte(wordLength, 0)>>
    ELSE IF wordLength < Len2
    THEN <<OrMask(Byte(wordLength, 1), 128), Byte(wordLength, 0)>>
    ELSE IF wordLength < Len3
    THEN <<OrMask(Byte(wordLength, 2), 192), Byte(wordLength, 1), Byte(wordLength, 0)>>
    ELSE <<OrMask(Byte(wordLength, 3), 224), Byte(wordLength, 2),
           Byte(wordLength, 1), Byte(wordLength, 0)>>

encodedLengthData(wordLength) ==
    IF wordLength < Len1 THEN <<Byte(wordLength, 0)>>
    ELSE IF wordLength < Len2
    THEN <<OrMask(Byte(wordLength, 1), 128), Byte(wordLength, 0)>>
    ELSE IF wordLength < Len3
    THEN <<OrMask(Byte(wordLength, 2), 192), Byte(wordLength, 1), Byte(wordLength, 0)>>
    ELSE <<OrMask(Byte(wordLength, 3), 224), Byte(wordLength, 2),
           Byte(wordLength, 1), Byte(wordLength, 0)>>

writeLength(s, wordLength) ==
    IF wordLength < Len4 THEN sockWrite(s, encodedLengthData(wordLength))
    ELSE throw(s, "Word too long")

sendWord(s, word) ==
    sockWrite(writeLength(record(s, "sendWord", "", toLatin1(word), <<>>),
                          count(word)),
              toLatin1(word))

RECURSIVE sendWords(_, _)
sendWords(s, words) ==
    IF words = <<>> THEN s ELSE sendWords(sendWord(s, Head(words)), Tail(words))

(* ++ID on a 32-bit int: past IntMax the behaviour is undefined; the build *)
(* wraps to -IntMax - 1 or stops the process (env.crash).                  *)
nextID(s, env) ==
    IF s.ID < IntMax THEN [s EXCEPT !.ID = @ + 1]
    ELSE IF env.crash THEN [s EXCEPT !.halted = TRUE]
    ELSE [s EXCEPT !.ID = -IntMax - 1]

(* sendSentence with a tag of its own: i is the state after ++ID.          *)
sendSentenceNewTag(i) ==
    returning(sendWords(i, <<S_tag \o DecStr(i.ID), <<>>>>), DecStr(i.ID))

(* sendSentence from the tag on: s has sent the command and the groups.    *)
sendSentenceTag(s, sent, addTag, env) ==
    IF ~addTag THEN returning(sendWord(s, <<>>), <<>>)
    ELSE IF sent.tag # <<>>
    THEN returning(sendWords(s, <<S_tag \o sent.tag, <<>>>>), sent.tag)
    ELSE IF Dead(s) THEN s
    ELSE sendSentenceNewTag(nextID(s, env))

sendSentence(s, sent, addTag, env) ==
    sendSentenceTag(
        sendWords(s, <<sent.command>> \o attrWords(sent.attributes)
                         \o apiWords(sent.APIattributes)
                         \o queryWords(sent.queries)),
        sent, addTag, env)

setLoginState(s, ls) ==
    IF Dead(s) THEN s
    ELSE IF ls # s.m_loginState
         THEN emit([s EXCEPT !.m_loginState = ls], "loginStateChanged", ls)
         ELSE s

-----------------------------------------------------------------------------
(* Decoding.  readLength answers [s, r]: r is the length or -1..-4, and s  *)
(* has lost the bytes that were read.  After a multi-byte prefix the same  *)
(* block is released twice (delete messageLength; delete [] lengthData).   *)
prefixMore(firstChar) ==
    IF firstChar \div 32 = 7 THEN 3            \* (firstChar & 0xE0) == 0xE0
    ELSE IF firstChar \div 64 = 3 THEN 2       \* (firstChar & 0xC0) == 0xC0
    ELSE IF firstChar \div 128 = 1 THEN 1      \* (firstChar & 0x80) == 0x80
    ELSE 0

prefixValue(firstChar, rest) ==
    IF firstChar \div 32 = 7
    THEN (firstChar % 32) * 16777216 + rest[1] * 65536 + rest[2] * 256 + rest[3]
    ELSE IF firstChar \div 64 = 3
    THEN (firstChar % 64) * 65536 + rest[1] * 256 + rest[2]
    ELSE IF firstChar \div 128 = 1
    THEN (firstChar % 128) * 256 + rest[1]
    ELSE firstChar

readLengthFrom(s, more, got, env) ==
    IF got < more
    THEN [s |-> [s EXCEPT !.rx = SubSeq(@, got + 2, Len(@))], r |-> -(got + 2)]
    ELSE [s |-> [s EXCEPT !.rx = SubSeq(@, more + 2, Len(@)),
                          !.halted = (more > 0 /\ env.crash)],
          r |-> prefixValue(Head(s.rx), Tail(s.rx))]

readLength(s, env) ==
    IF s.rx = <<>> THEN [s |-> s, r |-> -1]
    ELSE readLengthFrom(s, prefixMore(Head(s.rx)),
                        Min(prefixMore(Head(s.rx)), Len(s.rx) - 1), env)

(* Mutant: the bytes read replace the part of the word read before.       *)
readWordData_replace(s, tmp) ==
    [s EXCEPT !.rx = SubSeq(@, Len(tmp) + 1, Len(@)),
              !.incomingWordSize = @ - Len(tmp),
              !.incomingWord = tmp,
              !.ret = IF s.incomingWordSize - Len(tmp) = 0 THEN 1 ELSE -1]

(* readWord from m_sock.read(incomingWordSize) on, tmp being what is read. *)
readWordData(s, tmp) ==
    [s EXCEPT !.rx = SubSeq(@, Len(tmp) + 1, Len(@)),
              !.incomingWordSize = @ - Len(tmp),
              !.incomingWord = @ \o tmp,
              !.ret = IF s.incomingWordSize - Len(tmp) = 0 THEN 1 ELSE -1]

readWordBody(s) ==
    readWordData(s, SubSeq(s.rx, 1, Min(s.incomingWordSize, Len(s.rx))))

(* The switch on incomingWordSize = readLength().                          *)
readWordSwitch(rl) ==
    IF rl.s.halted THEN rl.s
    ELSE IF rl.r = -1 THEN [rl.s EXCEPT !.incomingWordSize = -1, !.ret = -1]
    ELSE IF rl.r \in {-2, -3, -4}
    THEN throw([rl.s EXCEPT !.incomingWordSize = rl.r],
               "Incomplete word length arrived.")
    ELSE IF rl.r = 0
    THEN [rl.s EXCEPT !.incomingWordSize = 0, !.incomingWord = <<>>, !.ret = 0]
    ELSE readWordBody([rl.s EXCEPT !.incomingWordSize = rl.r])

readWord(s, env) ==
    IF s.incomingWordSize <= 0 THEN readWordSwitch(readLength(s, env))
    ELSE readWordBody(s)

RECURSIVE readSentence(_, _)
(* The body of the loop of readSentence, w being the state after readWord. *)
readSentenceWord(w, env) ==
    IF Dead(w) THEN w
    ELSE IF w.ret >= 0
    THEN IF w.incomingWord = <<>>
         THEN [w EXCEPT !.sentenceCompleted = TRUE]
         ELSE readSentence([w EXCEPT
                  !.incomingSentence = Append(@, w.incomingWord),
                  !.incomingWord = <<>>,
                  !.incomingWordSize = -1], env)
    ELSE [w EXCEPT !.sentenceCompleted = FALSE]

readSentence(s, env) == readSentenceWord(readWord(s, env), env)

-----------------------------------------------------------------------------
(* Slots of the socket's signals, and the socket primitives that raise     *)
(* them synchronously.                                                     *)
(* Mutant: the login sentence is sent with the default addTag = true.      *)
onSocketStateChanges_tagged(s, st, env) ==
    IF st = "Connected"
    THEN LET s1 == emit(s, "comStateChanged", "Connected")
             s2 == setLoginState(s1, "NoLoged")
             s3 == emit(s2, "loginRequest", "")
             s4 == setLoginState([s3 EXCEPT !.m_Username = env.cred.user,
                                            !.m_Password = env.cred.pass],
                                 "LoginRequested")
         IN returning(sendSentence([s4 EXCEPT !.incomingSentence = <<>>],
                                   QSentence(S_login), TRUE, env), s.ret)
    ELSE emit(s, "comStateChanged", st)

onSocketStateChanges(s, st, env) ==
    IF st = "Connected"
    THEN LET s1 == emit(s, "comStateChanged", "Connected")
             s2 == setLoginState(s1, "NoLoged")
             s3 == emit(s2, "loginRequest", "")
             s4 == setLoginState([s3 EXCEPT !.m_Username = env.cred.user,
                                            !.m_Password = env.cred.pass],
                                 "LoginRequested")
         IN returning(sendSentence([s4 EXCEPT !.incomingSentence = <<>>],
                                   QSentence(S_login), FALSE, env), s.ret)
    ELSE emit(s, "comStateChanged", st)

onError(s, errorString) ==
    emit(IF s.sockState # "Connected"
         THEN emit(s, "comStateChanged", "Unconnected") ELSE s,
         "comError", errorString)

sockSetState(s, st, env) ==
    onSocketStateChanges([s EXCEPT !.sockState = st], st, env)

(* QAbstractSocket::disconnectFromHost: Closing, then Unconnected once the *)
(* write buffer is empty.                                                  *)
sockDisconnected(s, env) ==
    IF env.pending THEN s ELSE sockSetState(s, "Unconnected", env)

sockDisconnectFromHost(s, env) ==
    IF s.sockState = "Unconnected" THEN s
    ELSE sockDisconnected(IF s.sockState # "Closing"
                          THEN sockSetState(s, "Closing", env) ELSE s, env)

(* QAbstractSocket::close: the device is closed, buffered input is lost.   *)
sockClose(s, env) ==
    IF Dead(s) THEN s
    ELSE sockDisconnectFromHost([s EXCEPT !.sockOpen = FALSE, !.rx = <<>>], env)

(* QAbstractSocket::abort: no wait for unsent bytes.                       *)
sockAbort(s, env) ==
    IF s.sockState = "Unconnected" THEN s
    ELSE sockSetState([s EXCEPT !.sockOpen = FALSE, !.rx = <<>>], "Unconnected", env)

(* QAbstractSocket::connectToHost: opens the device, drops old buffers.    *)
sockConnectToHost(s, env) ==
    sockSetState([s EXCEPT !.sockOpen = TRUE, !.rx = <<>>], "HostLookup", env)

-----------------------------------------------------------------------------
(* Mutant: the state of the socket is not tested.                          *)
connectTo_untested(s, env) == returning(sockConnectToHost(s, env), TRUE)

connectTo(s, env) ==
    IF s.sockState # "Unconnected"
    THEN returning(emit(s, "comError", "Trying to connect a allready opened socket"),
                   FALSE)
    ELSE returning(sockConnectToHost(s, env), TRUE)

closeCom(s, force, env) ==
    IF isConnected(s)
    THEN IF force
         THEN emit(emit(sockClose(sockAbort(s, env), env),
                        "comStateChanged", "Unconnected"),
                   "comError", "forced abort/close on socket")
         ELSE sockDisconnectFromHost(s, env)
    ELSE s

(* The bytes the login response hashes: one NUL, the password up to its    *)
(* strlen, 16 bytes of the decoded challenge.                              *)
md5Input(password, ret32) ==
    <<0>> \o SubSeq(toLatin1(password), 1, strlen(toLatin1(password))) \o
    SubSeq(toLatin1(ToBinary(ret32)), 1, DigestLen)

clearSentence(s) == IF Dead(s) THEN s ELSE [s EXCEPT !.incomingSentence = <<>>]

(* doLogin, case LoginRequested, the four rejections: comError, NoLoged,   *)
(* (but for the first) incomingSentence.clear(), m_sock.close().           *)
(* Mutant: a rejection that leaves the socket open.                        *)
doLoginReject_open(s, msg, env) ==
    clearSentence(setLoginState(emit(s, "comError", msg), "NoLoged"))

doLoginReject(s, msg, env) ==
    sockClose(
        IF msg = "Cannot login"
        THEN setLoginState(emit(s, "comError", msg), "NoLoged")
        ELSE clearSentence(setLoginState(emit(s, "comError", msg), "NoLoged")),
        env)

(* doLogin, case LoginRequested, the response to the challenge.            *)
doLoginRespond(s, md5PasswordToSend) ==
    setLoginState(
        [sendWords(s, <<S_login, S_name \o s.m_Username,
                        S_response \o md5PasswordToSend, <<>>>>)
            EXCEPT !.incomingSentence = <<>>, !.incomingWordSize = -1],
        "UserPassSended")

doLoginRequested(s, env) ==
    IF getResultType(s.incomingSentence) # "Done"
    THEN doLoginReject(s, "Cannot login", env)
    ELSE IF attributesCount(s.incomingSentence) # 1
    THEN doLoginReject(s, "didn't receive anything", env)
    ELSE IF Len(attribute(s.incomingSentence, S_ret)) = 0
    THEN doLoginReject(s, "Doesn't receive 'ret' namefield", env)
    ELSE IF Len(attribute(s.incomingSentence, S_ret)) # RetLen
    THEN doLoginReject(s, "'ret' field doesn't contains 32 characters", env)
    ELSE doLoginRespond(s, DigestToHexString(MD5(
             md5Input(s.m_Password, attribute(s.incomingSentence, S_ret)))))

(* Mutant: any reply to the response sentence logs in.                     *)
doLoginUserPassSended_any(s, env) ==
    setLoginState([s EXCEPT !.incomingWordSize = -1,
                            !.incomingSentence = <<>>], "LogedIn")

(* doLogin, case UserPassSended: the reply to the response sentence.       *)
doLoginUserPassSended(s, env) ==
    IF getResultType(s.incomingSentence) = "Done"
    THEN setLoginState([s EXCEPT !.incomingWordSize = -1,
                                 !.incomingSentence = <<>>], "LogedIn")
    ELSE sockClose(
            [record(emit(setLoginState(s, "NoLoged"),
                         "comError", "Invalid Username or Password"),
                    "comError", "remote msg",
                    attribute(s.incomingSentence, S_message), <<>>)
                EXCEPT !.incomingWordSize = -1, !.incomingSentence = <<>>],
            env)

(* The call is recorded in `events` with the state it found.               *)
doLoginCalled(s) ==
    record(s, "doLogin", s.m_loginState, <<>>, s.incomingSentence)

doLogin(s, env) ==
    CASE s.m_loginState = "NoLoged" -> doLoginCalled(s)
      [] s.m_loginState = "LoginRequested" ->
            doLoginRequested(doLoginCalled(s), env)
      [] s.m_loginState = "UserPassSended" ->
            doLoginUserPassSended(doLoginCalled(s), env)
      [] s.m_loginState = "LogedIn" ->
            throw(doLoginCalled(s), "router is loged already in")

(* Mutant: the test of m_loginState is inverted.                           *)
onSentence_inverted(s, env) ==
    IF Dead(s) \/ ~s.sentenceCompleted THEN s
    ELSE IF s.m_loginState = "LogedIn"
    THEN [doLogin(s, env) EXCEPT !.sentenceCompleted = FALSE]
    ELSE [record(s, "comReceive", "", <<>>, s.incomingSentence)
            EXCEPT !.incomingSentence = <<>>, !.sentenceCompleted = FALSE]

(* onReadyRead after readSentence.                                         *)
onSentence(s, env) ==
    IF Dead(s) \/ ~s.sentenceCompleted THEN s
    ELSE IF s.m_loginState # "LogedIn"
    THEN [doLogin(s, env) EXCEPT !.sentenceCompleted = FALSE]
    ELSE [record(s, "comReceive", "", <<>>, s.incomingSentence)
            EXCEPT !.incomingSentence = <<>>, !.sentenceCompleted = FALSE]

onReadyRead(s, env) == onSentence(readSentence(s, env), env)

-----------------------------------------------------------------------------
(* What the router and the application may do.                             *)
Wire(words) ==
    Concat([i \in 1..Len(words) |-> encodedLengthData(Len(words[i])) \o words[i]])
        \o <<0>>

W_ret(n)  == <<61>> \o S_ret \o <<61>> \o SubSeq(Hex32 \o Hex32, 1, n)
P_challenge == Wire(<<S_done, W_ret(RetLen)>>)
P_done      == Wire(<<S_done>>)
P_trap      == Wire(<<S_trap, <<61>> \o S_message \o <<61, 110, 111>> >>)
P_short     == Wire(<<S_done, W_ret(RetLen - 1)>>)
P_long      == Wire(<<S_done, W_ret(RetLen + 1)>>)
P_noret     == Wire(<<S_done, <<61, 97, 61, 98>> >>)

PeerMenu == {P_challenge, P_done, P_trap, P_short, P_long, P_noret}
PipeMenu == {P_done}

NoEnv == [crash |-> FALSE, caught |-> FALSE, pending |-> FALSE, cred |-> appCred]

-----------------------------------------------------------------------------
(* History kept for the properties.                                        *)
LoginRejects(ls, sent) ==
    \/ /\ ls = "LoginRequested"
       /\ \/ getResultType(sent) # "Done"
          \/ attributesCount(sent) # 1
          \/ Len(attribute(sent, S_ret)) # RetLen
    \/ /\ ls = "UserPassSended"
       /\ getResultType(sent) # "Done"

Has(evs, sig) == \E i \in 1..Len(evs) : evs[i].sig = sig
Only(evs, sig) == SelectSeq(evs, LAMBDA e : e.sig = sig)
SentWords(evs) == [i \in 1..Len(Only(evs, "sendWord")) |-> Only(evs, "sendWord")[i].data]

Cur ==
    [sockState |-> sockState, sockOpen |-> sockOpen, rx |-> rx,
     m_Username |-> m_Username, m_Password |-> m_Password,
     incomingWord |-> incomingWord, incomingSentence |-> incomingSentence,
     sentenceCompleted |-> sentenceCompleted, m_loginState |-> m_loginState,
     incomingWordSize |-> incomingWordSize, ID |-> ID, halted |-> FALSE,
     events |-> <<>>, tx |-> <<>>, ret |-> 0, thrown |-> ""]

Commit(s, op, env, newNet, newPartial) ==
    /\ sockState' = s.sockState
    /\ sockOpen' = s.sockOpen
    /\ rx' = s.rx
    /\ m_Username' = s.m_Username
    /\ m_Password' = s.m_Password
    /\ incomingWord' = s.incomingWord
    /\ incomingSentence' = s.incomingSentence
    /\ sentenceCompleted' = s.sentenceCompleted
    /\ m_loginState' = s.m_loginState
    /\ incomingWordSize' = s.incomingWordSize
    /\ ID' = s.ID
    /\ halted' = (s.halted \/ (s.thrown # "" /\ ~env.caught))
    /\ events' = s.events
    /\ tx' = s.tx
    /\ ret' = s.ret
    /\ thrown' = s.thrown
    /\ lastOp' = op
    /\ net' = IF s.sockState = "Connected" THEN newNet ELSE <<>>
    /\ partial' = (s.sockState = "Connected" /\ newNet # <<>> /\ newPartial)
    /\ appCred' = appCred /\ frame' = frame
    /\ doneReplies' =
          IF op = "Connected" THEN 0
          ELSE doneReplies + Len(SelectSeq(s.events,
                  LAMBDA e : e.sig = "doLogin" /\ getResultType(e.sent) = "Done"))
    /\ authFailed' =
          IF op = "Connected" \/ (op = "connectTo" /\ s.sockState = "HostLookup")
          THEN FALSE
          ELSE authFailed \/ \E i \in 1..Len(s.events) :
                  /\ s.events[i].sig = "doLogin"
                  /\ LoginRejects(s.events[i].arg, s.events[i].sent)

Init ==
    /\ sockState = "Unconnected" /\ sockOpen = FALSE
    /\ rx = <<>> /\ net = <<>> /\ partial = FALSE
    /\ appCred \in Credentials
    /\ m_Username = <<>> /\ m_Password = <<>>
    /\ incomingWord = <<>> /\ incomingSentence = <<>>
    /\ sentenceCompleted \in BOOLEAN        \* not set by the constructor
    /\ m_loginState = "NoLoged" /\ incomingWordSize = -1
    /\ ID = 0 /\ halted = FALSE
    /\ events = <<>> /\ tx = <<>> /\ ret = 0 /\ thrown = ""
    /\ lastOp = "Comm" /\ nConn = 0 /\ nPeer = 0
    /\ doneReplies = 0 /\ authFailed = FALSE
    /\ frame = [prefix |-> <<>>, word |-> <<>>, follow |-> <<>>]
    /\ given = <<>>

(* connectTo(addr, port), called by the application.                       *)
ConnectTo ==
    /\ ~halted
    /\ sockState = "Unconnected" => nConn < MaxConn
    /\ Commit(connectTo(Cur, NoEnv), "connectTo", NoEnv, net, partial)
    /\ nConn' = IF sockState = "Unconnected" THEN nConn + 1 ELSE nConn
    /\ UNCHANGED <<nPeer, given>>

(* closeCom(force), called by the application.                             *)
CloseCom ==
    /\ ~halted
    /\ \E force \in BOOLEAN, pending \in BOOLEAN :
          LET env == [NoEnv EXCEPT !.pending = pending]
          IN Commit(closeCom(Cur, force, env),
                    IF force THEN "closeComForce" ELSE "closeCom", env, net, partial)
    /\ UNCHANGED <<nConn, nPeer, given>>

(* sendSentence(sent, addTag), called by the application.                  *)
SendSentence ==
    /\ ~halted
    /\ \E sent \in {QSentence(S_cmd)}, addTag \in BOOLEAN :
          /\ (addTag /\ sent.tag = <<>>) => ID < MaxID
          /\ Commit(sendSentence(Cur, sent, addTag, NoEnv), "sendSentence", NoEnv,
                    net, partial)
    /\ UNCHANGED <<nConn, nPeer, given>>

(* stateChanged(ConnectingState) from the socket.                          *)
SocketConnecting ==
    /\ ~halted /\ sockState = "HostLookup"
    /\ Commit(sockSetState(Cur, "Connecting", NoEnv), "Connecting", NoEnv, <<>>, FALSE)
    /\ UNCHANGED <<nConn, nPeer, given>>

(* stateChanged(ConnectedState): the slot asks the application for the     *)
(* credentials and starts the login.                                       *)
SocketConnected ==
    /\ ~halted /\ sockState = "Connecting"
    /\ Commit(sockSetState(Cur, "Connected", NoEnv), "Connected", NoEnv, <<>>, FALSE)
    /\ UNCHANGED <<nConn, nPeer, given>>

(* The unsent bytes are gone: stateChanged(UnconnectedState).              *)
SocketClosed ==
    /\ ~halted /\ sockState = "Closing"
    /\ Commit(sockSetState(Cur, "Unconnected", NoEnv), "Unconnected", NoEnv, <<>>, FALSE)
    /\ UNCHANGED <<nConn, nPeer, given>>

(* error(): the attempt fails, or the router closes the connection.        *)
SocketError ==
    /\ ~halted /\ sockState \in {"HostLookup", "Connecting", "Connected"}
    /\ \E pending \in BOOLEAN :
          LET env == [NoEnv EXCEPT !.pending = pending]
              s == IF sockState = "Connected"
                   THEN sockDisconnectFromHost(
                            onError(Cur, "remote host closed"), env)
                   ELSE onError(sockSetState(Cur, "Unconnected", env),
                                "connection refused")
          IN Commit(s, "onError", env, <<>>, FALSE)
    /\ UNCHANGED <<nConn, nPeer, given>>

(* The router sends a sentence.                                            *)
PeerSend ==
    /\ ~halted /\ sockState = "Connected" /\ nPeer < MaxPeer
    /\ \E p \in PeerMenu :
          /\ net = <<>> \/ (net \in PipeMenu /\ p \in PipeMenu)
          /\ net' = net \o p
    /\ nPeer' = nPeer + 1
    /\ events' = <<>> /\ tx' = <<>> /\ thrown' = "" /\ lastOp' = "PeerSend"
    /\ UNCHANGED <<sockState, sockOpen, rx, partial, appCred, m_Username,
                   m_Password, incomingWord, incomingSentence, sentenceCompleted,
                   m_loginState, incomingWordSize, ID, halted, ret, nConn,
                   doneReplies, authFailed, frame, given>>

(* k more bytes arrive: readyRead() and its slot.                          *)
DataArrives ==
    /\ ~halted /\ sockState = "Connected" /\ net # <<>>
    /\ \E k \in {Len(net)} \cup (IF partial THEN {} ELSE 1..Min(MaxCut, Len(net))),
          crash \in BOOLEAN, caught \in BOOLEAN,
          pending \in BOOLEAN :
          LET env == [NoEnv EXCEPT !.crash = crash, !.caught = caught,
                                   !.pending = pending]
              s0 == [Cur EXCEPT !.rx = @ \o SubSeq(net, 1, k)]
          IN Commit(onReadyRead(s0, env), "onReadyRead", env,
                    SubSeq(net, k + 1, Len(net)), TRUE)
    /\ UNCHANGED <<nConn, nPeer, given>>

Next ==
    \/ ConnectTo
    \/ CloseCom
    \/ SendSentence
    \/ SocketConnecting
    \/ SocketConnected
    \/ SocketClosed
    \/ SocketError
    \/ PeerSend
    \/ DataArrives

Spec == Init /\ [][Next]_vars

-----------------------------------------------------------------------------
(* Word framing alone: one word, and what follows it, reaches the socket   *)
(* of a connected Comm in pieces, and readWord is called after each piece. *)
PayloadBytes == {97, 128}

Payloads == UNION {[1..n -> PayloadBytes] : n \in 0..MaxPayload}

(* The length prefixes readLength decodes to n, for n < 128.               *)
Prefixes(n) == {<<n>>, <<128, n>>, <<192, 0, n>>, <<224, 0, 0, n>>}

Follows == {<<>>, <<1, 98>>}

Frames ==
    UNION {{[prefix |-> p, word |-> w, follow |-> f] :
                p \in Prefixes(Len(w)), f \in Follows} : w \in Payloads}

InitFrame ==
    /\ frame \in Frames
    /\ net = frame.prefix \o frame.word \o frame.follow
    /\ sockState = "Connected" /\ sockOpen = TRUE
    /\ rx = <<>> /\ partial = FALSE
    /\ appCred \in Credentials
    /\ m_Username = appCred.user /\ m_Password = appCred.pass
    /\ incomingWord = <<>> /\ incomingSentence = <<>>
    /\ sentenceCompleted = FALSE
    /\ m_loginState = "LogedIn"
    /\ incomingWordSize \in {-1, 0}      \* after readSentence added a word / completed
    /\ ID = 0 /\ halted = FALSE
    /\ events = <<>> /\ tx = <<>> /\ ret = 0 /\ thrown = ""
    /\ lastOp = "Comm" /\ nConn = 1 /\ nPeer = 1
    /\ doneReplies = 2 /\ authFailed = FALSE
    /\ given = <<>>

(* k more bytes arrive, then readWord() is called once.                    *)
ReadWord ==
    /\ ~halted /\ thrown = "" /\ ~(lastOp = "readWord" /\ ret >= 0)
    /\ \E k \in 0..Len(net), crash \in BOOLEAN :
          LET s == readWord([Cur EXCEPT !.rx = @ \o SubSeq(net, 1, k)],
                            [NoEnv EXCEPT !.crash = crash])
          IN /\ rx' = s.rx /\ incomingWord' = s.incomingWord
             /\ incomingWordSize' = s.incomingWordSize
             /\ ret' = s.ret /\ thrown' = s.thrown /\ halted' = s.halted
             /\ net' = SubSeq(net, k + 1, Len(net))
    /\ lastOp' = "readWord"
    /\ UNCHANGED <<sockState, sockOpen, partial, appCred, m_Username, m_Password,
                   incomingSentence, sentenceCompleted, m_loginState, ID,
                   events, tx, nConn, nPeer, doneReplies, authFailed, frame,
                   given>>

NextFrame == ReadWord

SpecFrame == InitFrame /\ [][NextFrame]_vars

(* Bytes of the frame that reached the socket, and payload bytes among them. *)
Delivered == Len(frame.prefix) + Len(frame.word) + Len(frame.follow) - Len(net)

PayloadGot == Min(Delivered - Len(frame.prefix), Len(frame.word))

-----------------------------------------------------------------------------
(* Sending alone: one connection, on which the application sends sentences *)
(* of every shape while the login goes on.  ID is what the earlier calls   *)
(* of the process left in it.                                              *)
AppSentences ==
    { QSentence(S_cmd),
      [QSentence(S_cmd) EXCEPT !.tag = <<116>>],
      [QSentence(S_cmd) EXCEPT !.attributes = << <<<<97>>, <<98>>>> >>,
                               !.APIattributes = << <<<<99>>, <<100>>>> >>,
                               !.queries = << <<101>> >>],
      [QSentence(S_cmd) EXCEPT !.queries = << <<LongRun>> >>] }

InitSend ==
    /\ sockState = "Connecting" /\ sockOpen = TRUE
    /\ rx = <<>> /\ net = <<>> /\ partial = FALSE
    /\ appCred \in Credentials
    /\ m_Username = <<>> /\ m_Password = <<>>
    /\ incomingWord = <<>> /\ incomingSentence = <<>>
    /\ sentenceCompleted \in BOOLEAN
    /\ m_loginState = "NoLoged" /\ incomingWordSize = -1
    /\ ID \in {0, IntMax - MaxID} /\ halted = FALSE
    /\ events = <<>> /\ tx = <<>> /\ ret = 0 /\ thrown = ""
    /\ lastOp = "Connecting" /\ nConn = 1 /\ nPeer = 0
    /\ doneReplies = 0 /\ authFailed = FALSE
    /\ frame = [prefix |-> <<>>, word |-> <<>>, follow |-> <<>>]
    /\ given = <<>>

(* sendSentence(sent, addTag); the call is recorded ahead of its words,    *)
(* and the QString it returns starts empty.                                *)
SendAny ==
    /\ ~halted
    /\ \E sent \in AppSentences, addTag \in BOOLEAN,
          crash \in BOOLEAN, caught \in BOOLEAN :
          /\ (addTag /\ sent.tag = <<>>) =>
                (0 <= ID /\ ID < MaxID) \/ ID >= IntMax - MaxID
          /\ Commit(sendSentence(
                        record([Cur EXCEPT !.ret = <<>>], "sendSentence",
                               IF addTag THEN "addTag" ELSE "", sent.tag, sent),
                        sent, addTag,
                        [NoEnv EXCEPT !.crash = crash, !.caught = caught]),
                    "sendSentence",
                    [NoEnv EXCEPT !.crash = crash, !.caught = caught],
                    net, partial)
    /\ UNCHANGED <<nConn, nPeer, given>>

NextSend ==
    \/ SendAny
    \/ SocketConnected
    \/ PeerSend
    \/ DataArrives

SpecSend == InitSend /\ [][NextSend]_vars

-----------------------------------------------------------------------------
(* The length codec alone: writeLength(n) writes a prefix that comes back  *)
(* on the transport, or the peer sends a prefix of its own; readLength     *)
(* then decodes what is there.                                              *)
CodecLengths ==
    UNION {{b - 1, b, b + 1} : b \in {Len1, 256, Len2, 65536, Len3, 16777216, Len4}}
        \cup {0, IntMax}

PeerBytes == {0, 255}

InitCodec ==
    /\ sockState = "Connected" /\ sockOpen = TRUE
    /\ rx = <<>> /\ net = <<>> /\ partial = FALSE
    /\ appCred \in Credentials
    /\ m_Username = appCred.user /\ m_Password = appCred.pass
    /\ incomingWord = <<>> /\ incomingSentence = <<>>
    /\ sentenceCompleted = FALSE
    /\ m_loginState = "LogedIn" /\ incomingWordSize = -1
    /\ ID = 0 /\ halted = FALSE
    /\ events = <<>> /\ tx = <<>> /\ ret = 0 /\ thrown = ""
    /\ lastOp = "Comm" /\ nConn = 1 /\ nPeer = 1
    /\ doneReplies = 2 /\ authFailed = FALSE
    /\ frame = [prefix |-> <<>>, word |-> <<>>, follow |-> <<>>]
    /\ given = <<>>

(* writeLength(n); what it wrote comes back, followed by other bytes.      *)
WriteLength ==
    /\ lastOp = "Comm"
    /\ \E n \in CodecLengths, f \in Follows, caught \in BOOLEAN :
          LET s == writeLength(Cur, n)
          IN /\ tx' = s.tx /\ thrown' = s.thrown
             /\ halted' = (s.thrown # "" /\ ~caught)
             /\ net' = s.tx \o f
             /\ frame' = [prefix |-> s.tx, word |-> <<>>, follow |-> f]
             /\ given' = <<n>>
    /\ lastOp' = "writeLength"
    /\ UNCHANGED <<sockState, sockOpen, rx, partial, appCred, m_Username,
                   m_Password, incomingWord, incomingSentence,
                   sentenceCompleted, m_loginState, incomingWordSize, ID,
                   events, ret, nConn, nPeer, doneReplies, authFailed>>

(* The peer sends a prefix: any first byte, then up to three more bytes.   *)
PeerPrefix ==
    /\ lastOp = "Comm"
    /\ \E b \in 0..255, k \in 0..3 : \E rest \in [1..k -> PeerBytes] :
          /\ net' = <<b>> \o rest
          /\ frame' = [prefix |-> <<b>> \o rest, word |-> <<>>, follow |-> <<>>]
    /\ lastOp' = "peer"
    /\ UNCHANGED <<sockState, sockOpen, rx, partial, appCred, m_Username,
                   m_Password, incomingWord, incomingSentence,
                   sentenceCompleted, m_loginState, incomingWordSize, ID,
                   halted, events, tx, ret, thrown, nConn, nPeer, doneReplies,
                   authFailed, given>>

(* readLength() with everything that was sent available in the socket.     *)
ReadLength ==
    /\ lastOp \in {"writeLength", "peer"} /\ ~halted /\ thrown = ""
    /\ \E crash \in BOOLEAN :
          LET rl == readLength([Cur EXCEPT !.rx = net],
                               [NoEnv EXCEPT !.crash = crash])
          IN /\ rx' = rl.s.rx /\ ret' = rl.r /\ halted' = rl.s.halted
    /\ net' = <<>>
    /\ lastOp' = "readLength"
    /\ UNCHANGED <<sockState, sockOpen, partial, appCred, m_Username,
                   m_Password, incomingWord, incomingSentence,
                   sentenceCompleted, m_loginState, incomingWordSize, ID,
                   events, tx, thrown, nConn, nPeer, doneReplies, authFailed,
                   frame, given>>

NextCodec ==
    \/ WriteLength
    \/ PeerPrefix
    \/ ReadLength

SpecCodec == InitCodec /\ [][NextCodec]_vars

-----------------------------------------------------------------------------
(* Sentence assembly alone: the router sends one sentence, given, whose    *)
(* bytes reach the socket in pieces; readSentence runs after each piece    *)
(* and may run again when nothing has arrived.                             *)
LongWord == [i \in 1..Len1 |-> 97]

SentenceWords == {<<97>>, <<98, 99>>, LongWord}

Sentences == UNION {[1..n -> SentenceWords] : n \in 0..MaxWords}

Pieces(n) == {0, 1, 2, n} \cap 0..n

InitSentence ==
    /\ given \in Sentences
    /\ net = Wire(given)
    /\ sockState = "Connected" /\ sockOpen = TRUE
    /\ rx = <<>> /\ partial = FALSE
    /\ appCred \in Credentials
    /\ m_Username = appCred.user /\ m_Password = appCred.pass
    /\ incomingWord = <<>> /\ incomingSentence = <<>>
    /\ sentenceCompleted \in BOOLEAN
    /\ m_loginState = "LogedIn" /\ incomingWordSize = -1
    /\ ID = 0 /\ halted = FALSE
    /\ events = <<>> /\ tx = <<>> /\ ret = 0 /\ thrown = ""
    /\ lastOp = "Comm" /\ nConn = 1 /\ nPeer = 1
    /\ doneReplies = 2 /\ authFailed = FALSE
    /\ frame = [prefix |-> <<>>, word |-> <<>>, follow |-> <<>>]

(* k more bytes arrive, then readSentence() is called once.                *)
ReadSentence ==
    /\ ~halted /\ thrown = ""
    /\ \E k \in Pieces(Len(net)), crash \in BOOLEAN :
          LET s == readSentence([Cur EXCEPT !.rx = @ \o SubSeq(net, 1, k)],
                                [NoEnv EXCEPT !.crash = crash])
          IN /\ rx' = s.rx /\ incomingWord' = s.incomingWord
             /\ incomingWordSize' = s.incomingWordSize
             /\ incomingSentence' = s.incomingSentence
             /\ sentenceCompleted' = s.sentenceCompleted
             /\ ret' = s.ret /\ thrown' = s.thrown /\ halted' = s.halted
             /\ net' = SubSeq(net, k + 1, Len(net))
    /\ lastOp' = "readSentence"
    /\ UNCHANGED <<sockState, sockOpen, partial, appCred, m_Username, m_Password,
                   m_loginState, ID, events, tx, nConn, nPeer, doneReplies,
                   authFailed, frame, given>>

NextSentence == ReadSentence

SpecSentence == InitSentence /\ [][NextSentence]_vars

(* The words of a sentence that lie wholly in its first n bytes.           *)
RECURSIVE CompleteWords(_, _)
CompleteWords(words, n) ==
    IF words = <<>> \/ n < Len(Wire(<<Head(words)>>)) - 1 THEN <<>>
    ELSE <<Head(words)>>
             \o CompleteWords(Tail(words), n - (Len(Wire(<<Head(words)>>)) - 1))

-----------------------------------------------------------------------------
(* Properties of the connection and of the login machine.                  *)
Proj(evs) == [i \in 1..Len(evs) |-> <<evs[i].sig, evs[i].arg, evs[i].data>>]

(* C1: a completed sentence goes to exactly one consumer: to the           *)
(* application (comReceive) only when the login state is LogedIn, and      *)
(* otherwise to doLogin; doLogin is never entered in LogedIn, its throw    *)
(* never happens, the completion flag is consumed in the same step, and    *)
(* a connection hands a sentence to the application only after the login   *)
(* machine took its two Done replies.                                      *)
C1_Routing ==
    /\ \A i \in 1..Len(events) :
          /\ events[i].sig = "comReceive" => events[i].loged
          /\ events[i].sig = "doLogin" => events[i].arg # "LogedIn"
    /\ Len(Only(events, "comReceive")) + Len(Only(events, "doLogin")) <= 1
    /\ thrown # "router is loged already in"
    /\ Has(events, "comReceive") => doneReplies >= 2
    /\ (lastOp = "onReadyRead" /\ thrown = "" /\ ~halted) => ~sentenceCompleted

C1_Witness ==
    /\ lastOp = "onReadyRead" /\ Has(events, "comReceive") /\ doneReplies = 2

(* C2 as stated: sendSentence puts bytes on the transport only when the    *)
(* socket is Connected and the login state is LogedIn.                     *)
C2_SendOnlyLogedIn ==
    (lastOp = "sendSentence" /\ tx # <<>>) =>
        (sockState = "Connected" /\ m_loginState = "LogedIn")

(* C5 as stated: after closeCom(true) the socket is Unconnected, whatever  *)
(* its state was.                                                          *)
C5_ForceCloseUnconnected ==
    lastOp = "closeComForce" => sockState = "Unconnected"

(* C6 as stated: after a closeCom(true) that closed the connection, the    *)
(* pending word, the pending sentence, the completion flag and the login   *)
(* state are at their initial values.                                      *)
C6_ForceCloseResets ==
    (lastOp = "closeComForce" /\ Has(events, "comError")) =>
        /\ incomingWordSize = -1 /\ incomingWord = <<>>
        /\ incomingSentence = <<>> /\ ~sentenceCompleted
        /\ m_loginState = "NoLoged"

C8_LoginStarts ==
    [][lastOp' = "Connected" =>
        /\ Proj(events') =
              <<<<"comStateChanged", "Connected", <<>>>>>>
              \o (IF m_loginState # "NoLoged"
                  THEN <<<<"loginStateChanged", "NoLoged", <<>>>>>> ELSE <<>>)
              \o <<<<"loginRequest", "", <<>>>>,
                   <<"loginStateChanged", "LoginRequested", <<>>>>,
                   <<"sendWord", "", S_login>>,
                   <<"sendWord", "", <<>>>>>>
        /\ tx' = <<6>> \o S_login \o <<0>>
        /\ m_loginState' = "LoginRequested"
        /\ incomingSentence' = <<>>
        /\ m_Username' = appCred.user /\ m_Password' = appCred.pass
        /\ ID' = ID]_vars

C8_Witness ==
    /\ lastOp = "Connected" /\ nConn = 2 /\ ID = 1
    /\ Has(events, "loginRequest")
    /\ Proj(events)[2] = <<"loginStateChanged", "NoLoged", <<>>>>

(* C9 as stated: a Done reply with the single attribute ret of 32          *)
(* characters is answered by "/login", "=name=<user>",                     *)
(* "=response=00<hex(H(0x00 ++ password ++ challenge))>", "", after which  *)
(* the pending sentence and word are clear and the state UserPassSended.   *)
C9_Response ==
    \A i \in 1..Len(events) :
        (/\ events[i].sig = "doLogin" /\ events[i].arg = "LoginRequested"
         /\ getResultType(events[i].sent) = "Done"
         /\ attributesCount(events[i].sent) = 1
         /\ Len(attribute(events[i].sent, S_ret)) = RetLen)
        => /\ SentWords(events) =
                <<S_login, S_name \o m_Username,
                  S_response \o DigestToHexString(MD5(
                      <<0>> \o m_Password \o ToBinary(attribute(events[i].sent, S_ret)))),
                  <<>>>>
           /\ incomingSentence = <<>> /\ incomingWord = <<>>
           /\ incomingWordSize = -1
           /\ m_loginState = "UserPassSended"

(* C10 as stated: whenever isLoged() answers true, in a slot of a signal   *)
(* or between two steps, the login machine took the two Done replies of    *)
(* the connection that is open.                                            *)
C10_LogedMeansHandshake ==
    /\ \A i \in 1..Len(events) : events[i].loged => doneReplies >= 2
    /\ (sockState = "Connected" /\ m_loginState = "LogedIn") => doneReplies >= 2

(* C3 as stated: when only a part of a 2-, 3- or 4-byte length prefix has  *)
(* arrived, readWord answers -1, without an exception, and keeps its       *)
(* place in the prefix.                                                    *)
C3_SplitPrefixResumable ==
    (lastOp = "readWord" /\ 0 < Delivered /\ Delivered < Len(frame.prefix)) =>
        (ret = -1 /\ thrown = "" /\ ~halted)

-----------------------------------------------------------------------------
(* C11: connectTo on a socket that is not Unconnected answers false, emits *)
(* one comError and nothing else, and leaves the socket (state, device,    *)
(* buffered input), the login state, the pending word and the pending      *)
(* sentence as they were; on an Unconnected socket it answers true, opens  *)
(* the device and starts the host lookup, and emits no comError.           *)
C11_ConnectToGuard ==
    [][lastOp' = "connectTo" =>
        IF sockState # "Unconnected"
        THEN /\ ret' = FALSE
             /\ Len(events') = 1 /\ events'[1].sig = "comError"
             /\ UNCHANGED <<sockState, sockOpen, rx, m_loginState, incomingWord,
                            incomingWordSize, incomingSentence, sentenceCompleted,
                            nConn>>
        ELSE /\ ret' = TRUE
             /\ ~Has(events', "comError")
             /\ Proj(events') = <<<<"comStateChanged", "HostLookup", <<>>>>>>
             /\ sockState' = "HostLookup" /\ sockOpen' /\ nConn' = nConn + 1
             /\ UNCHANGED <<m_loginState, incomingWord, incomingWordSize,
                            incomingSentence>>]_vars

C11_Witness ==
    /\ lastOp = "connectTo" /\ ret = FALSE /\ Has(events, "comError")
    /\ sockState = "Closing" /\ m_loginState = "UserPassSended"

(* C12 as stated: a sendSentence call that returns, with addTag and no tag *)
(* in the sentence, advances the counter and returns the new value, which  *)
(* is greater than every value before it (1 the first time); with addTag   *)
(* and a tag in the sentence it returns that tag and leaves the counter;   *)
(* without addTag it returns "", sends no ".tag=" word and leaves the      *)
(* counter.                                                                *)
C12_TagAllocation ==
    [][(lastOp' = "sendSentence" /\ thrown' = "") =>
        IF events'[1].arg = "addTag" /\ events'[1].data = <<>>
        THEN /\ ID' > ID
             /\ ~halted' /\ ret' = DecStr(ID')
             /\ ID = 0 => ret' = <<49>>
        ELSE IF events'[1].arg = "addTag"
        THEN ID' = ID /\ ret' = events'[1].data
        ELSE /\ ID' = ID /\ ret' = <<>>
             /\ \A i \in 1..Len(SentWords(events')) :
                   SubSeq(SentWords(events')[i], 1,
                          Min(Len(S_tag), Len(SentWords(events')[i]))) # S_tag]_vars

(* C18 as stated: the words of a sendSentence call are the command, the    *)
(* attribute words, the API attribute words, the query words, ".tag=<tag>" *)
(* if addTag, and one empty word; the words a step sends end with an empty *)
(* word; and the bytes a step writes are those words, each behind its      *)
(* length, or nothing when the socket takes no bytes.                      *)
C18_SentencesAtomic ==
    /\ lastOp = "sendSentence" =>
          SentWords(events) =
              <<events[1].sent.command>>
              \o attrWords(events[1].sent.attributes)
              \o apiWords(events[1].sent.APIattributes)
              \o queryWords(events[1].sent.queries)
              \o (IF events[1].arg # "addTag" THEN <<>>
                  ELSE IF events[1].data # <<>> THEN <<S_tag \o events[1].data>>
                  ELSE <<S_tag \o DecStr(ID)>>)
              \o << <<>> >>
    /\ SentWords(events) # <<>> =>
          /\ SentWords(events)[Len(SentWords(events))] = <<>>
          /\ Len(SelectSeq(SentWords(events), LAMBDA w : w = <<>>)) = 1
    /\ tx \in {<<>>, Concat([i \in 1..Len(SentWords(events)) |->
                              encodedLengthData(Len(SentWords(events)[i]))
                              \o SentWords(events)[i]])}

-----------------------------------------------------------------------------
(* Properties of the length codec.                                         *)
(* C13: for every n in [0, 0x10000000) the bytes written by writeLength(n), *)
(* fed completely to readLength, decode to exactly n and exactly the bytes *)
(* written are consumed; for n >= 0x10000000 writeLength fails with        *)
(* 'Word too long' and writes no byte.                                     *)
C13_CodecRoundTrip ==
    /\ lastOp = "writeLength" =>
          IF given[1] < Len4 THEN thrown = "" /\ tx # <<>>
          ELSE thrown = "Word too long" /\ tx = <<>>
    /\ (lastOp = "readLength" /\ given # <<>>) =>
          ~halted /\ ret = given[1] /\ rx = frame.follow

(* C14: writeLength(n) writes 1 byte 0xxxxxxx below 0x80, 2 bytes starting *)
(* 10 below 0x4000, 3 bytes starting 110 below 0x200000 and 4 bytes        *)
(* starting 1110 below 0x10000000, the other bits holding n with the most  *)
(* significant byte first.                                                 *)
C14_SizeClasses ==
    (lastOp = "writeLength" /\ given[1] < Len4) =>
        IF given[1] < Len1
        THEN Len(tx) = 1 /\ tx[1] \div 128 = 0 /\ tx[1] = given[1]
        ELSE IF given[1] < Len2
        THEN /\ Len(tx) = 2 /\ tx[1] \div 64 = 2
             /\ (tx[1] % 64) * 256 + tx[2] = given[1]
        ELSE IF given[1] < Len3
        THEN /\ Len(tx) = 3 /\ tx[1] \div 32 = 6
             /\ (tx[1] % 32) * 65536 + tx[2] * 256 + tx[3] = given[1]
        ELSE /\ Len(tx) = 4 /\ tx[1] \div 16 = 14
             /\ (tx[1] % 16) * 16777216 + tx[2] * 65536 + tx[3] * 256 + tx[4]
                    = given[1]

C14_Witness ==
    lastOp = "writeLength" /\ given = <<Len3>> /\ tx = <<224, 32, 0, 0>>

(* C17: a successful readLength returns a value in [0, 0x10000000),        *)
(* whatever the first byte and the following bytes in the transport are.   *)
C17_DecodeBelowLimit ==
    (lastOp = "readLength" /\ ret >= 0) => ret < Len4

-----------------------------------------------------------------------------
(* Properties of the sentence assembly.                                    *)
(* C15: a readSentence pass that has the whole sentence available ends     *)
(* with sentenceCompleted true and the pending sentence holding exactly    *)
(* its non-empty words in order; a pass that stops for lack of data ends   *)
(* with sentenceCompleted false and keeps the words assembled so far; a    *)
(* further pass with no new bytes after a completion does not signal       *)
(* completion again.                                                       *)
C15_SentenceAssembly ==
    [][lastOp' = "readSentence" =>
          /\ ~halted' /\ thrown' = ""
          /\ sentenceCompleted' = (net' = <<>> /\ rx \o net # <<>>)
          /\ incomingSentence' =
                CompleteWords(given, Len(Wire(given)) - Len(net'))]_vars

-----------------------------------------------------------------------------
(* Properties of the login state.                                          *)
(* The login states a step goes through: the state before it and the       *)
(* states of its loginStateChanged signals.                                *)
LoginChain(before, evs) ==
    <<before>> \o [i \in 1..Len(SelectSeq(evs, LAMBDA e : e.sig = "loginStateChanged"))
                      |-> SelectSeq(evs, LAMBDA e : e.sig = "loginStateChanged")[i].arg]

DoLoginWith(evs, state, valid) ==
    \E i \in 1..Len(evs) :
        /\ evs[i].sig = "doLogin" /\ evs[i].arg = state
        /\ getResultType(evs[i].sent) = "Done"
        /\ valid => /\ attributesCount(evs[i].sent) = 1
                    /\ Len(attribute(evs[i].sent, S_ret)) = RetLen

LoginMove(a, b, op, evs, done) ==
    CASE b = "NoLoged" -> TRUE
      [] b = "LoginRequested" -> a = "NoLoged" /\ op = "Connected"
      [] b = "UserPassSended" ->
            a = "LoginRequested" /\ DoLoginWith(evs, "LoginRequested", TRUE)
      [] b = "LogedIn" ->
            a = "UserPassSended" /\ DoLoginWith(evs, "UserPassSended", FALSE)
                /\ done = 2

(* C16: the login state becomes LoginRequested only on a Connected         *)
(* notification, UserPassSended only from LoginRequested after a valid     *)
(* Done challenge, LogedIn only from UserPassSended after a Done sentence, *)
(* the second Done reply of the connection; any other change is a fall     *)
(* back to NoLoged.                                                        *)
C16_LoginAdvances ==
    [][/\ LoginChain(m_loginState, events')[Len(LoginChain(m_loginState, events'))]
              = m_loginState'
       /\ \A i \in 1..(Len(LoginChain(m_loginState, events')) - 1) :
              LoginMove(LoginChain(m_loginState, events')[i],
                        LoginChain(m_loginState, events')[i + 1],
                        lastOp', events', doneReplies')]_vars

C16_Witness ==
    /\ lastOp = "onReadyRead" /\ m_loginState = "LogedIn" /\ doneReplies = 2
    /\ Proj(events) = <<<<"doLogin", "UserPassSended", <<>>>>,
                        <<"loginStateChanged", "LogedIn", <<>>>>>>

-----------------------------------------------------------------------------
(* Properties of the receiving side of a connection.                       *)
(* A readSentence pass that ends with a whole sentence.                    *)
Completes(p) == ~Dead(p) /\ p.sentenceCompleted

(* C19: every sentence that has arrived completely is handed to the login  *)
(* machine or to the application, even when several sentences arrive in    *)
(* one notification and no byte arrives after them: when nothing is on     *)
(* its way to a connected socket, the bytes left in the socket hold no     *)
(* whole sentence.                                                         *)
C19_ReceivedIsProcessed ==
    (sockState = "Connected" /\ ~halted /\ net = <<>>) =>
        ~Completes(readSentence(Cur, NoEnv))

(* C20: at every Connected notification the pending word is in its         *)
(* initial state, so that the first byte of the new connection is read as  *)
(* a length prefix.                                                        *)
C20_FramingStartsClean ==
    lastOp = "Connected" => (incomingWordSize <= 0 /\ incomingWord = <<>>)

====
